---- MODULE Spec2Model ----
(***************************************************************************)
(* Model of the Keybinder class of gnome-shell-keybinder (src/keybinder.js). *)
(*                                                                         *)
(* One Keybinder instance, the working directory it writes to, the         *)
(* compiled schema cache the external glib-compile-schemas leaves there,   *)
(* and the name table of the host's window manager (Main.wm).              *)
(*                                                                         *)
(* Strings that the code inspects character by character (key sequences)   *)
(* are sequences of one-character strings; the fixed pieces of the         *)
(* template literals are single tokens.  The default schema source handed  *)
(* to new_from_directory as fallback is taken not to hold a schema of this *)
(* registry's id.                                                          *)
(***************************************************************************)
EXTENDS Naturals, Sequences, FiniteSets, TLC

(* ---------------------------------------------------------------------- *)
(* Bounds and input sets                                                  *)
(* ---------------------------------------------------------------------- *)

\* largest number of add() calls explored
MaxBindings == 2

\* binding names offered to add()
Names == {"a", "b"}

\* the handler is opaque to the class: stored, handed to the host, never called
Handlers == {"h"}

\* "<Super>j", abbreviated
SeqSuperJ == <<"<", "S", ">", "j">>
\* "<Super>q", abbreviated
SeqSuperQ == <<"<", "S", ">", "q">>

\* what callers pass as `sequences`: a bare string or an Array of strings
SeqInputs ==
  { [isArray |-> FALSE, str |-> SeqSuperJ, arr |-> <<>>],
    [isArray |-> TRUE,  str |-> <<>>,      arr |-> <<SeqSuperJ, SeqSuperQ>>] }

\* longest key sequence string given to add, render and build taken alone
MaxStrLen == 2

\* the characters of those strings: the five the markup escapes, the backslash
\* that JSON escapes, and a plain one
Alphabet == {"<", ">", "&", "\"", "'", "\\", "j"}

\* the strings over the alphabet of at most n characters
StringsUpTo(n) == UNION {[1..k -> Alphabet] : k \in 0..n}

\* the short id given to the constructor
ShortId == "demo"

\* results the external compiler process can end with, as seen by spawn_sync
CompilerRuns == {"exit0", "exit1", "spawnerr"}

(* ---------------------------------------------------------------------- *)
(* State                                                                  *)
(* ---------------------------------------------------------------------- *)

VARIABLES
  bindings,   \* this.bindings: sequence of [name, sequences, handler]
  dirExists,  \* the working directory this.dir exists
  doc,        \* content of <dir>/<id>.gschema.xml, <<>> when there is no file
  cache,      \* <dir>/gschemas.compiled: [file, schemas]
  host,       \* names in the host's keybinding table (Main.wm)
  pc,         \* position of the running call: idle, build, compile, load, register, unregister
  idx,        \* position of the for..of loop over this.bindings
  settings,   \* the Gio.Settings made by load(): [loaded, keys]
  call,       \* history of the current or last enable()/disable() call
  added,      \* history: the arguments of the add() calls so far
  hist,       \* history across calls
  regs,       \* two registries enabling side by side in one directory: their state
  files,      \* the schema documents of that directory, by file name
  pure        \* inputs and results of add, render and build taken alone

vars == <<bindings, dirExists, doc, cache, host, pc, idx, settings, call, added, hist,
          regs, files, pure>>

(* ---------------------------------------------------------------------- *)
(* Helpers                                                                *)
(* ---------------------------------------------------------------------- *)

RECURSIVE Flatten(_)
\* concatenation of a sequence of sequences (Array.prototype.join(''))
Flatten(ss) == IF ss = <<>> THEN <<>> ELSE Head(ss) \o Flatten(Tail(ss))

\* set of the elements of a sequence
Range(s) == {s[i] : i \in 1..Len(s)}

\* the names of a binding list, in list order
NamesOf(bs) == [i \in 1..Len(bs) |-> bs[i].name]

\* event of the call history
Ev(e, n) == [ev |-> e, name |-> n]

\* the register events among a call's steps, as the sequence of their names
RegsOf(steps) == NamesOf(SelectSeq(steps, LAMBDA s : s.ev = "register"))

\* the unregister events among a call's steps, as the sequence of their names
UnregsOf(steps) == NamesOf(SelectSeq(steps, LAMBDA s : s.ev = "unregister"))

(* ---------------------------------------------------------------------- *)
(* constructor                                                            *)
(* ---------------------------------------------------------------------- *)

\* this.id = `org.gnome.shell.extensions.${id}`
RegId == <<"org", ".", "gnome", ".", "shell", ".", "extensions", ".", ShortId>>

NoSettings == [loaded |-> FALSE, keys |-> {}]
NoCache == [file |-> FALSE, schemas |-> {}]
NoCall == [op |-> "none", outcome |-> "none", steps |-> <<>>, comp |-> "none",
           dir |-> TRUE, hostBefore |-> {}, list |-> <<>>]
NoHist == [okSeen |-> FALSE, okClean |-> FALSE, okList |-> <<>>, okRegs |-> <<>>,
           disabled |-> FALSE, lateIdx |-> 0, lateEnable |-> FALSE, lateDisable |-> FALSE,
           lateCycle |-> FALSE]

\* nothing of the side-by-side registries and of the functions taken alone
NoRegs == <<>>
NoFiles == {}
NoPure == [stage |-> "none"]

\* the state of the one registry right after construction
InitOne ==
  /\ bindings = <<>>
  /\ dirExists = TRUE
  /\ doc = <<>>
  /\ cache = NoCache
  /\ host = {}
  /\ pc = "idle"
  /\ idx = 0
  /\ settings = NoSettings
  /\ call = NoCall
  /\ added = <<>>
  /\ hist = NoHist

Init ==
  /\ InitOne
  /\ regs = NoRegs
  /\ files = NoFiles
  /\ pure = NoPure


(* ---------------------------------------------------------------------- *)
(* add                                                                    *)
(* ---------------------------------------------------------------------- *)

\* variant: a bare string is stored as it is
NormalizeNone(sequences) == IF sequences.isArray THEN sequences.arr ELSE sequences.str

\* sequences instanceof Array ? sequences : [sequences]
Normalize(sequences) == IF sequences.isArray THEN sequences.arr ELSE <<sequences.str>>

\* variant: unshift instead of push
PushFront(list, b) == <<b>> \o list

\* this.bindings.push(b)
Push(list, b) == Append(list, b)

\* the last call that returned was an enable() that returned normally
EnabledNow == call.op = "enable" /\ call.outcome = "ok"

\* variant: a binding added while enabled is registered with the host at once
AddHotReload(name, sequences, handler) ==
  /\ pc = "idle"
  /\ Len(bindings) < MaxBindings
  /\ bindings' = Append(bindings, [name |-> name, sequences |-> Normalize(sequences),
                                   handler |-> handler])
  /\ added' = Append(added, [name |-> name, sequences |-> sequences, handler |-> handler])
  /\ hist' = IF EnabledNow
             THEN [hist EXCEPT !.lateIdx = Len(bindings) + 1, !.lateEnable = FALSE,
                               !.lateDisable = FALSE, !.lateCycle = FALSE]
             ELSE hist
  /\ host' = IF EnabledNow THEN host \cup {name} ELSE host
  /\ UNCHANGED <<dirExists, doc, cache, pc, idx, settings, call, regs, files, pure>>

\* add(name, sequences, handler)
Add(name, sequences, handler) ==
  /\ pc = "idle"
  /\ Len(bindings) < MaxBindings
  /\ bindings' = Push(bindings, [name |-> name, sequences |-> Normalize(sequences),
                                 handler |-> handler])
  /\ added' = Append(added, [name |-> name, sequences |-> sequences, handler |-> handler])
  /\ hist' = IF EnabledNow
             THEN [hist EXCEPT !.lateIdx = Len(bindings) + 1, !.lateEnable = FALSE,
                               !.lateDisable = FALSE, !.lateCycle = FALSE]
             ELSE hist
  /\ UNCHANGED <<dirExists, doc, cache, host, pc, idx, settings, call, regs, files, pure>>

(* ---------------------------------------------------------------------- *)
(* render                                                                 *)
(* ---------------------------------------------------------------------- *)

\* variant: only the characters that open markup are escaped
EscapeCharNoQuotes(c) ==
  CASE c = "&"  -> <<"&", "a", "m", "p", ";">>
    [] c = "<"  -> <<"&", "l", "t", ";">>
    [] c = ">"  -> <<"&", "g", "t", ";">>
    [] OTHER    -> <<c>>

\* GLib.markup_escape_text, one character
EscapeChar(c) ==
  CASE c = "&"  -> <<"&", "a", "m", "p", ";">>
    [] c = "<"  -> <<"&", "l", "t", ";">>
    [] c = ">"  -> <<"&", "g", "t", ";">>
    [] c = "'"  -> <<"&", "a", "p", "o", "s", ";">>
    [] c = "\"" -> <<"&", "q", "u", "o", "t", ";">>
    [] OTHER    -> <<c>>

\* GLib.markup_escape_text(s, s.length)
MarkupEscape(s) == Flatten([i \in 1..Len(s) |-> EscapeChar(s[i])])

\* JSON.stringify, one character of a string: " and \ are escaped
JsonChar(c) == IF c \in {"\"", "\\"} THEN <<"\\", c>> ELSE <<c>>

\* JSON.stringify of one string
JsonString(s) == <<"\"">> \o Flatten([i \in 1..Len(s) |-> JsonChar(s[i])]) \o <<"\"">>

\* JSON.stringify of an array of strings
JsonArray(value) ==
  <<"[">> \o Flatten([i \in 1..Len(value) |->
                        (IF i = 1 THEN <<>> ELSE <<",">>) \o JsonString(value[i])])
          \o <<"]">>

KeyOpen == "<key type=\"as\" name=\""
KeyMid == "\"><summary/><default>"
KeyClose == "</default></key>"

\* render({name, sequences})
Render(b) ==
  <<KeyOpen, b.name, KeyMid>>
    \o JsonArray([i \in 1..Len(b.sequences) |-> MarkupEscape(b.sequences[i])])
    \o <<KeyClose>>

(* ---------------------------------------------------------------------- *)
(* build                                                                  *)
(* ---------------------------------------------------------------------- *)

SchemaListOpen == "<schemalist>"
SchemaOpen == "<schema id=\""
PathOpen == "\" path=\"/"
PathClose == "/\">"
SchemaClose == "</schema>"
SchemaListClose == "</schemalist>"

\* this.id.replace(/\./g, '/')
PathOf(id) == [i \in 1..Len(id) |-> IF id[i] = "." THEN "/" ELSE id[i]]

\* the document build() writes
Content(id, bs) ==
  <<SchemaListOpen, SchemaOpen>> \o id \o <<PathOpen>> \o PathOf(id) \o <<PathClose>>
    \o Flatten([i \in 1..Len(bs) |-> Render(bs[i])]) \o <<SchemaClose, SchemaListClose>>

\* variant: the compiler is run before the document is written
EnableOrderSwapped(step) ==
  CASE step = "call"    -> "compile"
    [] step = "compile" -> "build"
    [] step = "build"   -> "load"
    [] step = "load"    -> "register"

\* variant: build and compile are skipped when a compiled cache is already there
EnableOrderCached(step) ==
  CASE step = "call"    -> (IF cache.file THEN "load" ELSE "build")
    [] step = "build"   -> "compile"
    [] step = "compile" -> "load"
    [] step = "load"    -> "register"

\* the step of enable() that follows a step that succeeded
EnableOrder(step) ==
  CASE step = "call"    -> "build"
    [] step = "build"   -> "compile"
    [] step = "compile" -> "load"
    [] step = "load"    -> "register"

\* the call ends by an exception leaving enable()
Throw(c) ==
  /\ pc' = "idle"
  /\ call' = [c EXCEPT !.outcome = "threw"]

\* variant: a document that is already there is kept
KeepContents(old, new) == IF old = <<>> THEN new ELSE old

\* variant: the new document is written after the old one
AppendContents(old, new) == old \o new

\* replace_contents(content, ...): the file holds the new content and nothing else
ReplaceContents(old, new) == new

\* variant: the error of the write is swallowed
WriteNeverFails == FALSE

\* replace_contents raises when the directory is missing
WriteFails == ~dirExists

\* build(): an error of replace_contents leaves build() and enable()
Build ==
  /\ pc = "build"
  /\ IF ~WriteFails
     THEN /\ doc' = ReplaceContents(doc, Content(RegId, bindings))
          /\ pc' = EnableOrder("build")
          /\ call' = [call EXCEPT !.steps = Append(@, Ev("build", ""))]
     ELSE /\ Throw([call EXCEPT !.steps = Append(@, Ev("build", ""))])
          /\ UNCHANGED doc
  /\ UNCHANGED <<bindings, dirExists, cache, host, idx, settings, added, hist, regs, files, pure>>


(* ---------------------------------------------------------------------- *)
(* compile                                                                *)
(* ---------------------------------------------------------------------- *)

\* position of the first token tok in s, 0 when absent
IndexOf(s, tok) ==
  IF \E i \in 1..Len(s) : s[i] = tok
  THEN CHOOSE i \in 1..Len(s) : s[i] = tok /\ \A j \in 1..(i - 1) : s[j] # tok
  ELSE 0

\* the id attribute the compiler reads from a document
DocId(content) == SubSeq(content, 3, IndexOf(content, PathOpen) - 1)

\* the key names the compiler reads from a document, in document order
DocKeys(content) ==
  LET at == SelectSeq([i \in 1..Len(content) |-> i], LAMBDA i : content[i] = KeyOpen)
  IN  [k \in 1..Len(at) |-> content[at[k] + 1]]

\* the compiler rejects a schema that names a key twice
DocValid(content) == Cardinality(Range(DocKeys(content))) = Len(DocKeys(content))

\* what glib-compile-schemas leaves in gschemas.compiled for the directory:
\* a schema file it cannot parse is ignored and the rest is written
Compiled(content) ==
  [file |-> TRUE,
   schemas |-> IF content # <<>> /\ DocValid(content)
               THEN {[id |-> DocId(content), keys |-> Range(DocKeys(content))]}
               ELSE {}]

\* how compile() went, for the call history
CompOutcome(run, content) ==
  IF run = "exit0" THEN (IF DocValid(content) THEN "ok" ELSE "ignored") ELSE run

\* compile(): spawn_sync raises only when the process cannot be started; the exit
\* status of a compiler that ran is dropped
Compile ==
  /\ pc = "compile"
  /\ \E run \in CompilerRuns :
       LET c == [call EXCEPT !.steps = Append(@, Ev("compile", "")),
                             !.comp = CompOutcome(run, doc)]
       IN  /\ cache' = IF run = "exit0" THEN Compiled(doc) ELSE cache
           /\ IF run = "spawnerr"
              THEN Throw(c)
              ELSE pc' = EnableOrder("compile") /\ call' = c
  /\ UNCHANGED <<bindings, dirExists, doc, host, idx, settings, added, hist, regs, files, pure>>


(* ---------------------------------------------------------------------- *)
(* load                                                                   *)
(* ---------------------------------------------------------------------- *)

\* src.lookup(this.id, true): the schemas of that id in the compiled cache
Lookup(c, id) == {s \in c.schemas : s.id = id}

\* variant: the result of the lookup is not checked
LoadUnchecked ==
  /\ pc = "load"
  /\ LET found == Lookup(cache, RegId)
     IN  settings' = [loaded |-> TRUE,
                      keys |-> IF found # {} THEN (CHOOSE s \in found : TRUE).keys ELSE {}]
  /\ pc' = EnableOrder("load")
  /\ idx' = 1
  /\ call' = [call EXCEPT !.steps = Append(@, Ev("load", ""))]
  /\ UNCHANGED <<bindings, dirExists, doc, cache, host, added, hist, regs, files, pure>>

\* load(): new_from_directory fails without a gschemas.compiled, and no settings
\* object can be made when the lookup finds no schema
Load ==
  /\ pc = "load"
  /\ LET c == [call EXCEPT !.steps = Append(@, Ev("load", ""))]
         found == Lookup(cache, RegId)
     IN  IF cache.file /\ found # {}
         THEN /\ settings' = [loaded |-> TRUE, keys |-> (CHOOSE s \in found : TRUE).keys]
              /\ pc' = EnableOrder("load")
              /\ idx' = 1
              /\ call' = c
         ELSE /\ Throw(c)
              /\ UNCHANGED <<settings, idx>>
  /\ UNCHANGED <<bindings, dirExists, doc, cache, host, added, hist, regs, files, pure>>

(* ---------------------------------------------------------------------- *)
(* enable                                                                 *)
(* ---------------------------------------------------------------------- *)

\* history: what the call that just ended adds to the record across calls
Fold ==
  CASE call.op = "enable" /\ call.outcome = "ok" ->
         [hist EXCEPT !.okSeen = TRUE,
                      !.okClean = call.dir /\ call.comp = "ok",
                      !.okList = call.list,
                      !.okRegs = RegsOf(call.steps),
                      !.disabled = FALSE]
    [] call.op = "disable" -> [hist EXCEPT !.disabled = hist.okSeen, !.lateDisable = TRUE]
    [] OTHER -> hist

\* enable() is called
EnableCall ==
  /\ pc = "idle"
  /\ pc' = EnableOrder("call")
  /\ idx' = 0
  /\ settings' = NoSettings
  /\ call' = [op |-> "enable", outcome |-> "running", steps |-> <<>>, comp |-> "none",
              dir |-> dirExists, hostBefore |-> host, list |-> bindings]
  /\ hist' = [Fold EXCEPT !.lateEnable = TRUE,
                          !.lateCycle = (call.op = "disable" \/ hist.lateDisable)]
  /\ UNCHANGED <<bindings, dirExists, doc, cache, host, added, regs, files, pure>>

\* variant: enable() skips the names the host already has
AddKeybindingSkipKnown ==
  /\ pc = "register"
  /\ idx <= Len(bindings)
  /\ LET name == bindings[idx].name
         c == [call EXCEPT !.steps = Append(@, Ev("register", name))]
     IN  IF name \in host
         THEN idx' = idx + 1 /\ UNCHANGED <<host, pc, call>>
         ELSE IF name \in settings.keys
              THEN /\ host' = host \cup {name}
                   /\ idx' = idx + 1
                   /\ pc' = "register"
                   /\ call' = c
              ELSE /\ Throw(c)
                   /\ UNCHANGED <<host, idx>>
  /\ UNCHANGED <<bindings, dirExists, doc, cache, settings, added, hist, regs, files, pure>>

\* Main.wm.addKeybinding(name, settings, 0, modes, handler): the host reads the key
\* `name` from the settings; without such a key the call fails and enable() ends
AddKeybinding ==
  /\ pc = "register"
  /\ idx <= Len(bindings)
  /\ LET name == bindings[idx].name
         c == [call EXCEPT !.steps = Append(@, Ev("register", name))]
     IN  IF name \in settings.keys
         THEN /\ host' = host \cup {name}
              /\ idx' = idx + 1
              /\ pc' = "register"
              /\ call' = c
         ELSE /\ Throw(c)
              /\ UNCHANGED <<host, idx>>
  /\ UNCHANGED <<bindings, dirExists, doc, cache, settings, added, hist, regs, files, pure>>

\* the for..of loop of enable() is over: enable() returns
EnableReturn ==
  /\ pc = "register"
  /\ idx > Len(bindings)
  /\ pc' = "idle"
  /\ call' = [call EXCEPT !.outcome = "ok"]
  /\ UNCHANGED <<bindings, dirExists, doc, cache, host, idx, settings, added, hist, regs, files, pure>>

(* ---------------------------------------------------------------------- *)
(* disable                                                                *)
(* ---------------------------------------------------------------------- *)

\* variant: the loop of disable() starts at the second binding
DisableCallSkipFirst ==
  /\ pc = "idle"
  /\ pc' = "unregister"
  /\ idx' = 2
  /\ call' = [op |-> "disable", outcome |-> "running", steps |-> <<>>, comp |-> "none",
              dir |-> dirExists, hostBefore |-> host, list |-> bindings]
  /\ hist' = Fold
  /\ UNCHANGED <<bindings, dirExists, doc, cache, host, settings, added, regs, files, pure>>

\* disable() is called
DisableCall ==
  /\ pc = "idle"
  /\ pc' = "unregister"
  /\ idx' = 1
  /\ call' = [op |-> "disable", outcome |-> "running", steps |-> <<>>, comp |-> "none",
              dir |-> dirExists, hostBefore |-> host, list |-> bindings]
  /\ hist' = Fold
  /\ UNCHANGED <<bindings, dirExists, doc, cache, host, settings, added, regs, files, pure>>

\* variant: the loop of disable() ends after its first unregister call
RemoveKeybindingBreak ==
  /\ pc = "unregister"
  /\ idx <= Len(bindings)
  /\ host' = host \ {bindings[idx].name}
  /\ idx' = Len(bindings) + 1
  /\ call' = [call EXCEPT !.steps = Append(@, Ev("unregister", bindings[idx].name))]
  /\ UNCHANGED <<bindings, dirExists, doc, cache, pc, settings, added, hist, regs, files, pure>>

\* variant: names the host does not know are skipped
RemoveKeybindingIfKnown ==
  /\ pc = "unregister"
  /\ idx <= Len(bindings)
  /\ host' = host \ {bindings[idx].name}
  /\ idx' = idx + 1
  /\ call' = IF bindings[idx].name \in host
             THEN [call EXCEPT !.steps = Append(@, Ev("unregister", bindings[idx].name))]
             ELSE call
  /\ UNCHANGED <<bindings, dirExists, doc, cache, pc, settings, added, hist, regs, files, pure>>

\* Main.wm.removeKeybinding(name)
RemoveKeybinding ==
  /\ pc = "unregister"
  /\ idx <= Len(bindings)
  /\ host' = host \ {bindings[idx].name}
  /\ idx' = idx + 1
  /\ call' = [call EXCEPT !.steps = Append(@, Ev("unregister", bindings[idx].name))]
  /\ UNCHANGED <<bindings, dirExists, doc, cache, pc, settings, added, hist, regs, files, pure>>

\* variant: disable() removes the schema document and the compiled cache
DisableReturnCleanup ==
  /\ pc = "unregister"
  /\ idx > Len(bindings)
  /\ pc' = "idle"
  /\ doc' = <<>>
  /\ cache' = NoCache
  /\ call' = [call EXCEPT !.outcome = "ok"]
  /\ UNCHANGED <<bindings, dirExists, host, idx, settings, added, hist, regs, files, pure>>

\* the for..of loop of disable() is over: disable() returns
DisableReturn ==
  /\ pc = "unregister"
  /\ idx > Len(bindings)
  /\ pc' = "idle"
  /\ call' = [call EXCEPT !.outcome = "ok"]
  /\ UNCHANGED <<bindings, dirExists, doc, cache, host, idx, settings, added, hist, regs, files, pure>>

(* ---------------------------------------------------------------------- *)
(* the working directory, between calls                                   *)
(* ---------------------------------------------------------------------- *)

\* the directory is removed with everything in it
RemoveDir ==
  /\ pc = "idle"
  /\ dirExists
  /\ dirExists' = FALSE
  /\ doc' = <<>>
  /\ cache' = NoCache
  /\ UNCHANGED <<bindings, host, pc, idx, settings, call, added, hist, regs, files, pure>>

\* the directory is created, empty
MakeDir ==
  /\ pc = "idle"
  /\ ~dirExists
  /\ dirExists' = TRUE
  /\ UNCHANGED <<bindings, doc, cache, host, pc, idx, settings, call, added, hist, regs, files, pure>>

(* ---------------------------------------------------------------------- *)
(* Specification                                                          *)
(* ---------------------------------------------------------------------- *)

AddAny == \E n \in Names, s \in SeqInputs, h \in Handlers : Add(n, s, h)

Next ==
  \/ AddAny
  \/ EnableCall
  \/ Build
  \/ Compile
  \/ Load
  \/ AddKeybinding
  \/ EnableReturn
  \/ DisableCall
  \/ RemoveKeybinding
  \/ DisableReturn
  \/ RemoveDir
  \/ MakeDir

Spec == Init /\ [][Next]_vars


(* ---------------------------------------------------------------------- *)
(* add, render and build taken alone                                      *)
(* ---------------------------------------------------------------------- *)

\* a caller's `sequences` argument: the bare string s, the array [s]
Bare(s) == [isArray |-> FALSE, str |-> s, arr |-> <<>>]
Arr(ss) == [isArray |-> TRUE, str |-> <<>>, arr |-> ss]

\* the binding add(name, sequences, handler) pushes
Binding(name, sequences, handler) ==
  [name |-> name, sequences |-> Normalize(sequences), handler |-> handler]

\* a name, a string s and a second string t are chosen
InitPure ==
  /\ InitOne
  /\ regs = NoRegs
  /\ files = NoFiles
  /\ pure \in {[stage |-> "input", name |-> n, s |-> s, t |-> t] :
                 n \in Names, s \in StringsUpTo(MaxStrLen), t \in StringsUpTo(1)}

\* add(name, s, h) on one fresh registry, add(name, [s], h) on another, and
\* add(name, [s, t], h) on a third
PureAdd ==
  /\ pure.stage = "input"
  /\ pure' = [stage |-> "added", name |-> pure.name, s |-> pure.s, t |-> pure.t,
              bare |-> Push(<<>>, Binding(pure.name, Bare(pure.s), "h")),
              arr  |-> Push(<<>>, Binding(pure.name, Arr(<<pure.s>>), "h")),
              two  |-> Push(<<>>, Binding(pure.name, Arr(<<pure.s, pure.t>>), "h"))]
  /\ UNCHANGED <<bindings, dirExists, doc, cache, host, pc, idx, settings, call, added, hist,
                 regs, files>>

\* render of the binding of each of the three registries
PureRender ==
  /\ pure.stage = "added"
  /\ pure' = [stage |-> "rendered", name |-> pure.name, s |-> pure.s, t |-> pure.t,
              bare |-> pure.bare, arr |-> pure.arr, two |-> pure.two,
              bareFrag |-> Render(pure.bare[1]),
              arrFrag  |-> Render(pure.arr[1]),
              twoFrag  |-> Render(pure.two[1])]
  /\ UNCHANGED <<bindings, dirExists, doc, cache, host, pc, idx, settings, call, added, hist,
                 regs, files>>

\* the document build() writes for each of the three registries
PureBuild ==
  /\ pure.stage = "rendered"
  /\ pure' = [stage |-> "built", name |-> pure.name, s |-> pure.s, t |-> pure.t,
              bare |-> pure.bare, arr |-> pure.arr, two |-> pure.two,
              bareFrag |-> pure.bareFrag, arrFrag |-> pure.arrFrag,
              twoFrag |-> pure.twoFrag,
              bareDoc |-> Content(RegId, pure.bare),
              arrDoc  |-> Content(RegId, pure.arr),
              twoDoc  |-> Content(RegId, pure.two)]
  /\ UNCHANGED <<bindings, dirExists, doc, cache, host, pc, idx, settings, call, added, hist,
                 regs, files>>

NextPure ==
  \/ PureAdd
  \/ PureRender
  \/ PureBuild

SpecPure == InitPure /\ [][NextPure]_vars

(* ---------------------------------------------------------------------- *)
(* two registries enabling side by side in one working directory          *)
(* ---------------------------------------------------------------------- *)

\* the two registries
R == {1, 2}
Other(r) == IF r = 1 THEN 2 ELSE 1

\* the id of a registry made with another short id
OtherId == <<"org", ".", "gnome", ".", "shell", ".", "extensions", ".", "other">>

\* the binding lists the two registries may hold
ConcLists ==
  LET a == Binding("a", Bare(SeqSuperJ), "h")
      b == Binding("b", Arr(<<SeqSuperJ, SeqSuperQ>>), "h")
  IN  {<<a>>, <<b>>, <<a, b>>}

\* `${this.id}.gschema.xml`
FileName(id) == id \o <<".gschema.xml">>

\* the content of the file of that name, <<>> when there is none
FileContent(fs, name) ==
  IF \E f \in fs : f.name = name THEN (CHOOSE f \in fs : f.name = name).content ELSE <<>>

\* the directory after registry r wrote content to the file of that name
WriteFile(fs, name, content, r) ==
  {f \in fs : f.name # name}
    \cup {[name |-> name, content |-> ReplaceContents(FileContent(fs, name), content),
           by |-> r]}

\* what glib-compile-schemas makes of the schema documents it read in the directory
CompiledDir(fs) ==
  [file |-> TRUE, schemas |-> UNION {Compiled(f.content).schemas : f \in fs}]

\* a registry on which enable() has just been called
Enabling(id, bs) ==
  [id |-> id, bindings |-> bs, pc |-> EnableOrder("call"), idx |-> 0,
   settings |-> NoSettings, steps |-> <<>>, outcome |-> "running",
   snap |-> {}, wrote |-> <<>>]

\* both registries hold their bindings, the directory is there and empty, and
\* enable() is called on both; the second has the id of the first or another
InitConc ==
  /\ InitOne
  /\ pure = NoPure
  /\ files = NoFiles
  /\ regs \in {<<Enabling(RegId, l1), Enabling(id2, l2)>> :
                 l1 \in ConcLists, l2 \in ConcLists, id2 \in {RegId, OtherId}}

\* what every step of the two registries leaves alone
ConcFrame ==
  UNCHANGED <<bindings, dirExists, doc, pc, idx, settings, call, added, hist, pure>>

\* build() of registry r
ConcBuild(r) ==
  /\ regs[r].pc = "build"
  /\ files' = WriteFile(files, FileName(regs[r].id),
                        Content(regs[r].id, regs[r].bindings), r)
  /\ regs' = [regs EXCEPT ![r].pc = EnableOrder("build"),
                          ![r].steps = Append(@, Ev("build", "")),
                          ![r].wrote = FileContent(files', FileName(regs[r].id))]
  /\ UNCHANGED <<cache, host>>
  /\ ConcFrame

\* compile() of registry r, first part: the compiler process is started and reads
\* the schema documents of the directory
ConcCompileRead(r) ==
  /\ regs[r].pc = "compile"
  /\ regs' = [regs EXCEPT ![r].pc = "compiling", ![r].snap = files]
  /\ UNCHANGED <<files, cache, host>>
  /\ ConcFrame

\* compile() of registry r, second part: the compiler process writes
\* gschemas.compiled and exits, and spawn_sync returns
ConcCompileWrite(r) ==
  /\ regs[r].pc = "compiling"
  /\ cache' = CompiledDir(regs[r].snap)
  /\ regs' = [regs EXCEPT ![r].pc = EnableOrder("compile"),
                          ![r].steps = Append(@, Ev("compile", ""))]
  /\ UNCHANGED <<files, host>>
  /\ ConcFrame

\* load() of registry r
ConcLoad(r) ==
  /\ regs[r].pc = "load"
  /\ LET found == Lookup(cache, regs[r].id)
         steps == Append(regs[r].steps, Ev("load", ""))
     IN  IF cache.file /\ found # {}
         THEN regs' = [regs EXCEPT ![r].pc = EnableOrder("load"),
                                   ![r].idx = 1,
                                   ![r].steps = steps,
                                   ![r].settings =
                                     [loaded |-> TRUE,
                                      keys |-> (CHOOSE s \in found : TRUE).keys]]
         ELSE regs' = [regs EXCEPT ![r].pc = "done", ![r].steps = steps,
                                   ![r].outcome = "threw"]
  /\ UNCHANGED <<files, cache, host>>
  /\ ConcFrame

\* one turn of the register loop of enable() of registry r
ConcAddKeybinding(r) ==
  /\ regs[r].pc = "register"
  /\ regs[r].idx <= Len(regs[r].bindings)
  /\ LET name == regs[r].bindings[regs[r].idx].name
         steps == Append(regs[r].steps, Ev("register", name))
     IN  IF name \in regs[r].settings.keys
         THEN /\ host' = host \cup {name}
              /\ regs' = [regs EXCEPT ![r].idx = @ + 1, ![r].steps = steps]
         ELSE /\ regs' = [regs EXCEPT ![r].pc = "done", ![r].steps = steps,
                                      ![r].outcome = "threw"]
              /\ UNCHANGED host
  /\ UNCHANGED <<files, cache>>
  /\ ConcFrame

\* enable() of registry r returns
ConcReturn(r) ==
  /\ regs[r].pc = "register"
  /\ regs[r].idx > Len(regs[r].bindings)
  /\ regs' = [regs EXCEPT ![r].pc = "done", ![r].outcome = "ok"]
  /\ UNCHANGED <<files, cache, host>>
  /\ ConcFrame

NextConc ==
  \E r \in R :
    \/ ConcBuild(r)
    \/ ConcCompileRead(r)
    \/ ConcCompileWrite(r)
    \/ ConcLoad(r)
    \/ ConcAddKeybinding(r)
    \/ ConcReturn(r)

SpecConc == InitConc /\ [][NextConc]_vars

(* ---------------------------------------------------------------------- *)
(* Properties                                                             *)
(* ---------------------------------------------------------------------- *)

\* s is an initial part of t
IsPrefix(s, t) == Len(s) <= Len(t) /\ SubSeq(t, 1, Len(s)) = s

\* the steps of an enable() call on the list bs that meets no failure
Pipeline(bs) ==
  <<Ev("build", ""), Ev("compile", ""), Ev("load", "")>>
    \o [i \in 1..Len(bs) |-> Ev("register", bs[i].name)]

\* the steps of a disable() call on the list bs
Unregisters(bs) == [i \in 1..Len(bs) |-> Ev("unregister", bs[i].name)]

\* the call has returned or thrown
Ended == pc = "idle" /\ call.outcome \in {"ok", "threw"}

\* C1: the steps of every enable() call are, in this order, build, compile, load and
\* then one register call per binding in list order, each step taken only after the
\* one before it; a register call is made only with the settings load() produced.
C1_EnableOrder ==
  call.op = "enable" =>
    /\ IsPrefix(call.steps, Pipeline(call.list))
    /\ (RegsOf(call.steps) # <<>> => settings.loaded)

C1_Witness ==
  /\ call.op = "enable" /\ Ended /\ call.outcome = "ok"
  /\ Len(call.list) = 2 /\ call.list[1].name # call.list[2].name
  /\ call.steps = Pipeline(call.list)

\* C2: an enable() call that throws has made no host register call and leaves the
\* host's registrations as they were before the call; one that returns normally has
\* registered every binding of the list.
C2_AllOrNothing ==
  (call.op = "enable" /\ Ended) =>
    IF call.outcome = "threw"
    THEN RegsOf(call.steps) = <<>> /\ host = call.hostBefore
    ELSE RegsOf(call.steps) = NamesOf(call.list) /\ Range(NamesOf(call.list)) \subseteq host

\* C3: when the working directory does not exist, enable() ends at build: no compile,
\* no load, no register call, and nothing changes at the host.
C3_MissingDirFailsAtBuild ==
  (call.op = "enable" /\ ~call.dir /\ pc # "build") =>
    /\ call.steps = <<Ev("build", "")>>
    /\ call.outcome = "threw"
    /\ ~settings.loaded
    /\ host = call.hostBefore

C3_Witness ==
  /\ call.op = "enable" /\ ~call.dir /\ Ended
  /\ call.list # <<>>
  /\ call.hostBefore # {}

\* C4: when the compiler run of an enable() call fails, compile() itself reports
\* nothing, load() is reached and fails, and enable() throws: it never returns normally.
C4_CompileFailureSurfacesAtLoad ==
  (call.op = "enable" /\ Ended /\ call.comp \in {"ignored", "exit1"}) =>
    /\ call.outcome = "threw"
    /\ call.steps = <<Ev("build", ""), Ev("compile", ""), Ev("load", "")>>


\* C5: disable() makes exactly one host unregister call per binding of the list, in
\* list order, and nothing else, whatever the host knows and whether or not enable()
\* ever ran.
C5_DisableUnregistersEach ==
  call.op = "disable" =>
    /\ IsPrefix(call.steps, Unregisters(call.list))
    /\ (Ended => call.steps = Unregisters(call.list))

C5_Witness ==
  /\ call.op = "disable" /\ Ended
  /\ ~hist.okSeen /\ call.hostBefore = {}
  /\ Len(call.list) = 2 /\ call.list[1].name # call.list[2].name

\* the names of the binding list
ListNames == Range(NamesOf(bindings))

\* C6 as stated: between calls either none or all of the list's bindings are
\* registered with the host.
C6_NoneOrAll ==
  pc = "idle" => (ListNames \cap host = {} \/ ListNames \subseteq host)

\* C6 as amended: between calls, after a disable() none of the list's bindings is
\* registered; after an enable() that returned normally every binding that was in the
\* list at that call is registered, and a binding added since is not, unless it
\* repeats the name of one that is.
C6_DisabledOrEnabled ==
  pc = "idle" =>
    /\ (call.op = "disable" => ListNames \cap host = {})
    /\ (call.op = "enable" /\ call.outcome = "ok" =>
          /\ Range(NamesOf(call.list)) \subseteq host
          /\ \A i \in (Len(call.list) + 1)..Len(bindings) :
               bindings[i].name \in host => bindings[i].name \in Range(NamesOf(call.list)))

C6_Witness ==
  /\ pc = "idle" /\ call.op = "enable" /\ call.outcome = "ok"
  /\ Len(call.list) = 1 /\ Len(bindings) = 2
  /\ bindings[1].name \in host /\ bindings[2].name \notin host

\* the environment of the call did not fail: the directory was there and the
\* compiler ran to its end
CleanCall == call.dir /\ call.comp \notin {"exit1", "spawnerr"}

\* C7: an enable() that returned normally, then a disable(), then an enable() with
\* the same binding list, directory and compiler working in both: the second enable()
\* returns normally as well, runs build, compile, load and the register calls again,
\* and registers the same names in the same order as the first.
C7_ReEnable ==
  (/\ call.op = "enable" /\ Ended /\ CleanCall
   /\ hist.okSeen /\ hist.okClean /\ hist.disabled /\ hist.okList = call.list) =>
    /\ call.outcome = "ok"
    /\ call.steps = Pipeline(call.list)
    /\ RegsOf(call.steps) = hist.okRegs

C7_Witness ==
  /\ call.op = "enable" /\ Ended /\ CleanCall
  /\ hist.okSeen /\ hist.okClean /\ hist.disabled /\ hist.okList = call.list
  /\ Len(call.list) = 2 /\ call.list[1].name # call.list[2].name
  /\ call.hostBefore = {}

\* a step of disable()
DisableStep == pc = "unregister" \/ (pc = "idle" /\ pc' = "unregister")

\* C8: no step of disable() changes the binding list, the schema document or the
\* compiled cache.
C8_DisableFrame ==
  [][DisableStep => (bindings' = bindings /\ doc' = doc /\ cache' = cache)]_vars

C8_Witness ==
  /\ call.op = "disable" /\ Ended
  /\ Len(bindings) = 2 /\ doc # <<>> /\ cache.schemas # {}
  /\ call.hostBefore # {} /\ host = {}

\* C9: the binding list is the sequence of the add() calls made so far, in call
\* order, each with its sequences as an array; nothing else touches it.
C9_ListIsAddHistory ==
  /\ Len(bindings) = Len(added)
  /\ \A i \in 1..Len(added) :
       /\ bindings[i].name = added[i].name
       /\ bindings[i].handler = added[i].handler
       /\ bindings[i].sequences =
            (IF added[i].sequences.isArray THEN added[i].sequences.arr
                                           ELSE <<added[i].sequences.str>>)

C9_Witness ==
  /\ Len(bindings) = 2 /\ bindings[1] # bindings[2]
  /\ call.op = "enable" /\ call.outcome = "threw" /\ Len(call.list) = 1
  /\ hist.okSeen /\ hist.disabled

\* the binding added last while enabled has had its register call
LateRegistered ==
  /\ hist.lateIdx # 0
  /\ call.op = "enable"
  /\ Len(RegsOf(call.steps)) >= hist.lateIdx

\* C10 as stated: a binding added after enable() returned gets its register call only
\* in an enable() that follows a disable() made after the add.
C10_OnlyAfterDisableEnable == LateRegistered => hist.lateCycle

\* C10 as amended: add() writes no document, runs no compiler, loads nothing and
\* makes no host call; a binding added after enable() returned gets its register call
\* only in a later enable() call, with or without a disable() in between.
C10_NoHotReload ==
  /\ [][bindings' # bindings =>
          (doc' = doc /\ cache' = cache /\ host' = host /\ settings' = settings
             /\ call' = call /\ pc' = pc)]_vars
  /\ [](LateRegistered => hist.lateEnable)

C10_Witness ==
  /\ LateRegistered /\ Ended /\ call.outcome = "ok"
  /\ ~hist.lateCycle
  /\ Len(call.list) = 2


\* the list names some binding twice
RepeatsName(bs) == \E i, j \in 1..Len(bs) : i # j /\ bs[i].name = bs[j].name

\* an enable() returned normally before this call and no disable() was called since
ReEnable == hist.okSeen /\ ~hist.disabled

\* C16: an enable() called after an enable() that returned normally, with no
\* disable() in between, runs build, compile and load again and, directory and
\* compiler working and the names distinct, makes one register call per binding of
\* the list, the names the host already has included.
C16_SecondEnableRunsAll ==
  (call.op = "enable" /\ ReEnable) =>
    /\ IsPrefix(call.steps, Pipeline(call.list))
    /\ (Ended /\ CleanCall /\ ~RepeatsName(call.list) =>
          call.outcome = "ok" /\ call.steps = Pipeline(call.list))

C16_Witness ==
  /\ call.op = "enable" /\ ReEnable /\ Ended /\ CleanCall
  /\ Len(call.list) = 2 /\ ~RepeatsName(call.list)
  /\ call.hostBefore = {call.list[1].name}

\* C17: add() takes a name the list already has and appends a second binding of
\* that name; the document the next enable() writes then holds two keys of the name,
\* the compiler refuses it, load() finds no schema and enable() throws before any
\* host register call.
C17_RepeatedNameFailsEnable ==
  (call.op = "enable" /\ RepeatsName(call.list)) =>
    /\ (pc \in {"compile", "load"} =>
          DocKeys(doc) = NamesOf(call.list) /\ ~DocValid(doc))
    /\ (pc \in {"load", "register"} /\ CleanCall => call.comp = "ignored")
    /\ (Ended /\ CleanCall =>
          /\ call.outcome = "threw"
          /\ call.steps = <<Ev("build", ""), Ev("compile", ""), Ev("load", "")>>
          /\ host = call.hostBefore)

C17_Witness ==
  /\ call.op = "enable" /\ Ended /\ CleanCall
  /\ Len(bindings) = 2 /\ bindings[1].name = bindings[2].name
  /\ call.list = bindings
  /\ hist.okSeen /\ call.hostBefore # {}

\* C18: the names registered with the host are always names of the binding list,
\* and once a disable() has returned none of them is registered any more.
C18_HostWithinList ==
  /\ host \subseteq ListNames
  /\ (call.op = "disable" /\ Ended => host = {})

C18_Witness ==
  /\ call.op = "disable" /\ Ended
  /\ Len(call.list) = 2 /\ ~RepeatsName(call.list)
  /\ Range(NamesOf(call.list)) \subseteq call.hostBefore
  /\ host = {}


\* C11: add with the bare string s and add with the array [s] leave the same binding
\* list, holding the one-element array [s], and give the same rendered key and the
\* same document.
C11_BareIsOneElementArray ==
  /\ (pure.stage \in {"added", "rendered", "built"} =>
        pure.bare = pure.arr /\ pure.bare[1].sequences = <<pure.s>>)
  /\ (pure.stage \in {"rendered", "built"} => pure.bareFrag = pure.arrFrag)
  /\ (pure.stage = "built" => pure.bareDoc = pure.arrDoc)

C11_Witness ==
  /\ pure.stage = "built"
  /\ Len(pure.s) = 2 /\ pure.s[1] = "<"
  /\ pure.bareDoc = pure.arrDoc

\* what render puts between <default> and </default>
Payload(frag) == SubSeq(frag, 4, Len(frag) - 1)

\* the names of the entities of the markup, after the &
Entities ==
  { <<"a", "m", "p", ";">>, <<"l", "t", ";">>, <<"g", "t", ";">>,
    <<"a", "p", "o", "s", ";">>, <<"q", "u", "o", "t", ";">> }

\* the number of positions of s that hold c
Count(s, c) == Cardinality({i \in 1..Len(s) : s[i] = c})

HasBuilt(r) == regs[r].pc # "build"

\* C13: the document a build leaves in its file is the one made from the registry's
\* id and binding list alone, whatever the file held before: it carries that id and
\* the keys of that list in add order and no other key, and two registries of one id
\* and one list write the same document.
C13_BuildDependsOnIdAndList ==
  regs # NoRegs =>
    /\ \A r \in R : HasBuilt(r) =>
         /\ regs[r].wrote = Content(regs[r].id, regs[r].bindings)
         /\ DocId(regs[r].wrote) = regs[r].id
         /\ DocKeys(regs[r].wrote) = NamesOf(regs[r].bindings)
    /\ \A f \in files : f.content = regs[f.by].wrote
    /\ (/\ HasBuilt(1) /\ HasBuilt(2)
        /\ regs[1].id = regs[2].id /\ regs[1].bindings = regs[2].bindings
        => regs[1].wrote = regs[2].wrote)

C13_Witness ==
  /\ regs # NoRegs
  /\ HasBuilt(1) /\ HasBuilt(2)
  /\ regs[1].id = regs[2].id
  /\ Len(regs[1].bindings) = 2 /\ Len(regs[2].bindings) = 1
  /\ \E f \in files : f.by = 2 /\ Len(DocKeys(f.content)) = 1

\* both enable() calls are over
BothDone == regs # NoRegs /\ \A r \in R : regs[r].pc = "done"

RegisteredWithoutKey(r) ==
  \E i \in 1..Len(regs[r].steps) :
    /\ regs[r].steps[i].ev = "register"
    /\ regs[r].steps[i].name \notin regs[r].settings.keys

\* C15: two registries of one id write one file, which holds the document of the one
\* that built last; the settings a registry loads then hold the keys of its own list
\* or of the other's, and a register call for a name that the loaded schema has no
\* key for is made exactly with the other registry's keys.  The witness is the
\* interleaving in which such a register call happens.
C15_SameIdLastWriteWins ==
  (regs # NoRegs /\ regs[1].id = regs[2].id) =>
    /\ Cardinality(files) <= 1
    /\ \A f \in files :
         /\ f.content = Content(regs[f.by].id, regs[f.by].bindings)
         /\ (HasBuilt(Other(f.by)) =>
               \/ regs[Other(f.by)].bindings = regs[f.by].bindings
               \/ regs[Other(f.by)].wrote # f.content)
    /\ \A r \in R :
         /\ (regs[r].settings.loaded =>
               regs[r].settings.keys \in {Range(NamesOf(regs[q].bindings)) : q \in R})
         /\ (RegisteredWithoutKey(r) =>
               regs[r].settings.keys = Range(NamesOf(regs[Other(r)].bindings)))

C15_Witness ==
  /\ regs # NoRegs /\ regs[1].id = regs[2].id
  /\ regs[1].bindings # regs[2].bindings
  /\ \E r \in R : RegisteredWithoutKey(r) /\ regs[r].outcome = "threw"

====
